---- MODULE Spec2Model ----
(***************************************************************************)
(* A model of core/types/block.go: Header, Block, the two lazily filled    *)
(* caches (hash, size), CopyHeader, the Block constructors and derivers,   *)
(* the two RLP decoders, the lookup helpers and BlockBy.Sort.               *)
(*                                                                         *)
(* Go values that are pointers or slices are modelled on an explicit heap: *)
(*   bigs     the *big.Int cells            (reference 0 is nil)           *)
(*   arrs     the backing arrays of []byte  (reference 0 is the nil slice) *)
(*   headers  the Header structs behind every *Header                      *)
(*   lists    the backing arrays of []*Transaction and []*ContractResult   *)
(*   blocks   the Block structs behind every *Block                        *)
(* so that aliasing between a caller's header and a Block's header is a    *)
(* fact of the state, not an assumption.                                   *)
(***************************************************************************)
EXTENDS Integers, Sequences, FiniteSets, TLC

VARIABLES bigs, arrs, headers, lists, blocks, ext, extLists, pc, last, origin, rets, coll, copies

vars == <<bigs, arrs, headers, lists, blocks, ext, extLists, pc, last, origin, rets, coll, copies>>

heap == <<bigs, arrs, headers, lists, blocks>>

----------------------------------------------------------------------------
(* Bounds of the model. *)

MaxHeaders == 2
MaxBlocks == 3
SortBlocks == 3
CacheBlocks == 1
NewBlocks == 2
AliasHeaders == 2
AliasBlocks == 2
MaxColl == 3
NumThreads == 2
ExtraCap == 2
MaxDecodes == 2

NIL == 0

Threads == 1 .. NumThreads

(* A big.Int value is the pair <<hi, lo>> standing for hi * 2^64 + lo with  *)
(* lo < 2^64: unbounded integers, with the 64-bit truncation (Uint64) the   *)
(* projection on lo.                                                       *)
Big(hi, lo) == <<hi, lo>>

BigZero == Big(0, 0)

BigCmpLess(x, y) == x[1] < y[1] \/ (x[1] = y[1] /\ x[2] < y[2])

Uint64(x) == x[2]

Bytes == {1, 2}

----------------------------------------------------------------------------
(* Header: the struct of block.go lines 88-107.  Difficulty, Number and    *)
(* Time hold references into bigs; Extra is a slice (array reference and   *)
(* length).                                                                *)

BigFields == {"Difficulty", "Number", "Time"}

MkHeader(txh, rh, bloom, gasUsed, d, n, t, ea, el) ==
    [ShardId |-> 1, ParentHash |-> 0, Coinbase |-> 0, Root |-> 0,
     TxHash |-> txh, ReceiptHash |-> rh, Bloom |-> bloom,
     Difficulty |-> d, Number |-> n, GasLimit |-> 0, GasUsed |-> gasUsed,
     Time |-> t, Extra |-> [arr |-> ea, len |-> el], MixDigest |-> 0, Nonce |-> 0]

(* The value of a *big.Int seen through reference r: <<>> for nil. *)
BigVal(bs, r) == IF r = NIL THEN <<>> ELSE <<bs[r]>>

(* The bytes of a slice: the first len elements of its backing array. *)
SliceVal(as, s) == IF s.arr = NIL THEN <<>> ELSE SubSeq(as[s.arr], 1, s.len)

(* A header struct with every reference followed: what a reader of the     *)
(* header's fields observes.                                               *)
HeaderValOf(h, bs, as) ==
    [h EXCEPT !.Difficulty = BigVal(bs, h.Difficulty),
              !.Number = BigVal(bs, h.Number),
              !.Time = BigVal(bs, h.Time),
              !.Extra = SliceVal(as, h.Extra)]

HeaderVal(r) == HeaderValOf(headers[r], bigs, arrs)

(* The same in the state a step leads to. *)
HeaderValNext(r) == HeaderValOf(headers'[r], bigs', arrs')

(* A nil big integer read as zero (what CopyHeader and the RLP encoder do). *)
ZeroIfNil(v) == IF v = <<>> THEN <<BigZero>> ELSE v

NilAsZero(hv) ==
    [hv EXCEPT !.Difficulty = ZeroIfNil(hv.Difficulty),
               !.Number = ZeroIfNil(hv.Number),
               !.Time = ZeroIfNil(hv.Time)]

(* Header.Hash (lines 160-162): the Keccak-256 of the header's RLP          *)
(* encoding, taken as collision free, so the hash is the encoded content.  *)
(* The encoder writes a nil *big.Int as the integer zero.                  *)
HeaderHashOf(h, bs, as) == NilAsZero(HeaderValOf(h, bs, as))

----------------------------------------------------------------------------
(* CopyHeader (lines 275-291) on the header struct h, allocating in the    *)
(* heap (bs, as): the struct is copied, Time, Difficulty and Number get    *)
(* fresh cells (zero when the source is nil), and Extra gets a fresh array *)
(* only when it is not empty.  The result is the new struct and the heap.  *)

CopyHeader(h, bs, as) ==
    LET n == Len(bs)
        v(r) == IF r # NIL THEN bs[r] ELSE BigZero
        bs1 == bs \o <<v(h.Time), v(h.Difficulty), v(h.Number)>>
        copyExtra == h.Extra.len > 0
        as1 == IF copyExtra THEN Append(as, SliceVal(as, h.Extra)) ELSE as
    IN  [hdr |-> [h EXCEPT !.Time = n + 1, !.Difficulty = n + 2, !.Number = n + 3,
                           !.Extra = IF copyExtra
                                     THEN [arr |-> Len(as) + 1, len |-> h.Extra.len]
                                     ELSE h.Extra],
         bigs |-> bs1, arrs |-> as1]

----------------------------------------------------------------------------
(* Transactions and contract results.  A transaction object is an id; two  *)
(* distinct objects (1 and 3) carry the same content and so the same hash. *)
(* A contract result r names the transaction hash it belongs to and the    *)
(* log bits it sets.                                                       *)

TxIds == {1, 2, 3}

RcIds == {11, 12}

TxHashOf(t) == IF t = 3 THEN <<1>> ELSE <<t>>

RcTxHash(r) == <<r - 10>>

RcBloom(r) == {r}

(* The hashes a lookup may be asked for; <<3>> is nobody's hash. *)
LookupHashes == {<<1>>, <<2>>, <<3>>}

(* DeriveSha: the Merkle root of the encodings of the items, in order;     *)
(* collision free, so the root is the tagged sequence of the encodings.    *)
EncItem(i) == IF i \in TxIds THEN TxHashOf(i)[1] ELSE i

RECURSIVE EncItems(_)
EncItems(s) == IF s = <<>> THEN <<>> ELSE <<EncItem(Head(s))>> \o EncItems(Tail(s))

DeriveSha(s) == <<"root", EncItems(s)>>

EmptyRootHash == DeriveSha(<<>>)

(* A hash a caller may have put in a header: the zero hash or some other. *)
CallerHash(n) == <<"hash", <<n>>>>

(* CreateBloom: the union of the receipts' log bits. *)
RECURSIVE CreateBloom(_)
CreateBloom(rs) == IF rs = <<>> THEN {} ELSE RcBloom(Head(rs)) \cup CreateBloom(Tail(rs))

(* The items of a []*Transaction or []*ContractResult slice: <<>> for nil. *)
ListValOf(ls, r) == IF r = NIL THEN <<>> ELSE ls[r]

ListVal(r) == ListValOf(lists, r)

----------------------------------------------------------------------------
(* The length of RLP encodings (package rlp).                              *)

ByteLen(n) == IF n = 0 THEN 0 ELSE IF n < 256 THEN 1 ELSE IF n < 65536 THEN 2 ELSE 3

BigByteLen(x) == IF x[1] > 0 THEN 8 + ByteLen(x[1]) ELSE ByteLen(x[2])

(* An integer: itself when below 128, else a length byte and its bytes. *)
RlpBigSize(x) == IF x[1] = 0 /\ x[2] < 128 THEN 1 ELSE 1 + BigByteLen(x)

(* A byte string: a single byte below 128 is itself. *)
RlpBytesSize(bs) ==
    IF Len(bs) = 1 /\ bs[1] < 128 THEN 1
    ELSE IF Len(bs) < 56 THEN 1 + Len(bs)
    ELSE 1 + ByteLen(Len(bs)) + Len(bs)

(* rlp.ListSize: the list header and the content. *)
RlpListSize(content) == IF content < 56 THEN 1 + content ELSE 1 + ByteLen(content) + content

RlpItemSize(i) == IF i \in TxIds THEN 100 + i ELSE 40 + i

RECURSIVE RlpItemsSize(_)
RlpItemsSize(s) == IF s = <<>> THEN 0 ELSE RlpItemSize(Head(s)) + RlpItemsSize(Tail(s))

(* A header value: 1 (ShardId) + 5 hashes of 33 + 21 (Coinbase) + 259      *)
(* (Bloom) + 1 + 1 (GasLimit, GasUsed below 128) + 9 (Nonce), then the     *)
(* three integers and Extra.                                               *)
HeaderRlpSize(hv) ==
    RlpListSize(1 + 5 * 33 + 21 + 259 + 1 + 1 + 9
                + RlpBigSize(ZeroIfNil(hv.Difficulty)[1])
                + RlpBigSize(ZeroIfNil(hv.Number)[1])
                + RlpBigSize(ZeroIfNil(hv.Time)[1])
                + RlpBytesSize(hv.Extra))

----------------------------------------------------------------------------
(* Block: the struct of lines 185-204.  hash and size are the atomic.Value *)
(* caches: <<>> while nothing was stored, <<v>> after a Store.             *)

MkBlock(h, ts, rs, td) ==
    [header |-> h, transactions |-> ts, receipts |-> rs,
     hash |-> <<>>, size |-> <<>>, td |-> td]

BlockRefs == 1 .. Len(blocks)

(* The header value of a block; a nil header pointer encodes as the empty  *)
(* list.                                                                   *)
BlockHeaderVal(b) == IF blocks[b].header = NIL THEN <<>> ELSE <<HeaderVal(blocks[b].header)>>

(* Header.Hash of the header the block currently holds. *)
BlockHeaderHash(b) ==
    IF blocks[b].header = NIL THEN <<>>
    ELSE <<HeaderHashOf(headers[blocks[b].header], bigs, arrs)>>

(* extblock (lines 221-225, EncodeRLP lines 306-312): the byte length of   *)
(* the relay encoding {Header, Txs, Receipts} of the block's contents.     *)
RelayContent(hv, ts, rs) ==
    (IF hv = <<>> THEN 1 ELSE HeaderRlpSize(hv[1]))
    + RlpListSize(RlpItemsSize(ts)) + RlpListSize(RlpItemsSize(rs))

RelaySize(hv, ts, rs) == RlpListSize(RelayContent(hv, ts, rs))

BlockRelaySize(b) ==
    RelaySize(BlockHeaderVal(b), ListVal(blocks[b].transactions), ListVal(blocks[b].receipts))

(* What a block reports through its accessors, in heap H: its header       *)
(* fields and its body.                                                    *)
BlockReportOf(H, b) ==
    [header |-> IF H.blocks[b].header = NIL THEN <<>>
                ELSE <<HeaderValOf(H.headers[H.blocks[b].header], H.bigs, H.arrs)>>,
     transactions |-> ListValOf(H.lists, H.blocks[b].transactions),
     receipts |-> ListValOf(H.lists, H.blocks[b].receipts)]

----------------------------------------------------------------------------
(* The state.  ext and extLists are the headers and slices callers hold    *)
(* references to; a Block's own header and slices are never among them     *)
(* unless the code hands them out.  pc is each thread's place inside       *)
(* Hash() or Size().  copies pairs each header a caller copied with its    *)
(* copy.  last records the latest call and what it returned,   *)
(* origin the call that last set each block's contents, rets every value   *)
(* Hash() returned for each block, coll a caller's Blocks collection.      *)

Heap == [bigs |-> bigs, arrs |-> arrs, headers |-> headers, lists |-> lists, blocks |-> blocks]

BlockReport(b) == BlockReportOf(Heap, b)

(* The same in the state a step leads to. *)
BlockReportNext(b) ==
    BlockReportOf([bigs |-> bigs', arrs |-> arrs', headers |-> headers', lists |-> lists',
                   blocks |-> blocks'], b)

SetHeap(H) ==
    /\ bigs' = H.bigs
    /\ arrs' = H.arrs
    /\ headers' = H.headers
    /\ lists' = H.lists
    /\ blocks' = H.blocks

Idle == [at |-> "idle", blk |-> NIL]

EmptyHeap == [bigs |-> <<>>, arrs |-> <<>>, headers |-> <<>>, lists |-> <<>>, blocks |-> <<>>]

----------------------------------------------------------------------------
(* What callers do with the headers and slices they hold.                  *)

(* A header a caller writes down (a composite literal) or a decoder builds *)
(* from a template: big integers <<>> (nil) or <<v>>, Extra with the       *)
(* capacity of its backing array (0: the nil slice).                       *)
BuildHeader(tpl, bs, as) ==
    LET ref(b, ov) == IF ov = <<>> THEN NIL ELSE Len(b) + 1
        add(b, ov) == IF ov = <<>> THEN b ELSE Append(b, ov[1])
        b1 == add(bs, tpl.Difficulty)
        b2 == add(b1, tpl.Number)
        b3 == add(b2, tpl.Time)
        arr == [i \in 1 .. tpl.Cap |-> IF i <= Len(tpl.Extra) THEN tpl.Extra[i] ELSE 0]
    IN  [hdr |-> MkHeader(tpl.TxHash, tpl.ReceiptHash, tpl.Bloom, tpl.GasUsed,
                          ref(bs, tpl.Difficulty), ref(b1, tpl.Number), ref(b2, tpl.Time),
                          IF tpl.Cap = 0 THEN NIL ELSE Len(as) + 1, Len(tpl.Extra)),
         bigs |-> b3,
         arrs |-> IF tpl.Cap = 0 THEN as ELSE Append(as, arr)]

(* h.Bloom = v, h.GasUsed = v, ...: an assignment to a field of the struct. *)
SetField(r, f, v) ==
    /\ r \in ext
    /\ headers[r][f] # v
    /\ headers' = [headers EXCEPT ![r][f] = v]
    /\ last' = [op |-> "Mutate", hdr |-> r]
    /\ UNCHANGED <<bigs, arrs, lists, blocks, ext, extLists, pc, origin, rets, coll, copies>>

(* h.Number.Set(v), h.Number.Add(..): the integer is changed in place. *)
MutBig(r, f, v) ==
    /\ r \in ext
    /\ headers[r][f] # NIL
    /\ bigs[headers[r][f]] # v
    /\ bigs' = [bigs EXCEPT ![headers[r][f]] = v]
    /\ last' = [op |-> "Mutate", hdr |-> r]
    /\ UNCHANGED <<arrs, headers, lists, blocks, ext, extLists, pc, origin, rets, coll, copies>>

(* h.Extra[i] = v *)
MutExtra(r, i, v) ==
    /\ r \in ext
    /\ i \in 1 .. headers[r].Extra.len
    /\ arrs[headers[r].Extra.arr][i] # v
    /\ arrs' = [arrs EXCEPT ![headers[r].Extra.arr][i] = v]
    /\ last' = [op |-> "Mutate", hdr |-> r]
    /\ UNCHANGED <<bigs, headers, lists, blocks, ext, extLists, pc, origin, rets, coll, copies>>

(* h.Extra = append(h.Extra, v): in place while the backing array has room, *)
(* into a fresh array otherwise.                                           *)
AppendExtra(r, v) ==
    /\ r \in ext
    /\ headers[r].Extra.len < ExtraCap
    /\ LET e == headers[r].Extra
           room == e.arr # NIL /\ e.len < Len(arrs[e.arr])
       IN  IF room
           THEN /\ arrs' = [arrs EXCEPT ![e.arr][e.len + 1] = v]
                /\ headers' = [headers EXCEPT ![r].Extra.len = e.len + 1]
           ELSE /\ arrs' = Append(arrs, Append(SliceVal(arrs, e), v))
                /\ headers' = [headers EXCEPT ![r].Extra = [arr |-> Len(arrs) + 1, len |-> e.len + 1]]
    /\ last' = [op |-> "Mutate", hdr |-> r]
    /\ UNCHANGED <<bigs, lists, blocks, ext, extLists, pc, origin, rets, coll, copies>>

(* txs[i] = item *)
MutList(l, i, item) ==
    /\ l \in extLists
    /\ i \in 1 .. Len(lists[l])
    /\ lists[l][i] # item
    /\ (item \in TxIds) = (lists[l][i] \in TxIds)
    /\ lists' = [lists EXCEPT ![l][i] = item]
    /\ last' = [op |-> "MutateList", list |-> l]
    /\ UNCHANGED <<bigs, arrs, headers, blocks, ext, extLists, pc, origin, rets, coll, copies>>

(* CopyHeader called by a caller on a header it holds. *)
CallCopyHeader(r) ==
    /\ r \in ext
    /\ Cardinality(ext) < MaxHeaders
    /\ LET c == CopyHeader(headers[r], bigs, arrs)
       IN  /\ bigs' = c.bigs
           /\ arrs' = c.arrs
           /\ headers' = Append(headers, c.hdr)
    /\ ext' = ext \cup {Len(headers) + 1}
    /\ last' = [op |-> "CopyHeader", src |-> r, dst |-> Len(headers) + 1]
    /\ copies' = copies \cup {<<r, Len(headers) + 1>>}
    /\ UNCHANGED <<lists, blocks, extLists, pc, origin, rets, coll>>

----------------------------------------------------------------------------
(* The constructors and derivers of Block, as functions of the heap H and  *)
(* their arguments (references); each returns the heap it leaves and the   *)
(* reference of the block it made.                                         *)

(* NewBlock (lines 243-264): the header is copied, TxHash and ReceiptHash  *)
(* are set from the two sequences, Bloom only when there are receipts; the *)
(* transactions are copied when there are any, the receipts are not kept.  *)
NewBlockKeepRoots(H, hr, tl, rl) ==
    LET c == CopyHeader(H.headers[hr], H.bigs, H.arrs)
        txs == ListValOf(H.lists, tl)
    IN  [H |-> [bigs |-> Append(c.bigs, BigZero), arrs |-> c.arrs,
                headers |-> Append(H.headers, c.hdr),
                lists |-> IF Len(txs) = 0 THEN H.lists ELSE Append(H.lists, txs),
                blocks |-> Append(H.blocks,
                                  MkBlock(Len(H.headers) + 1,
                                          IF Len(txs) = 0 THEN NIL ELSE Len(H.lists) + 1,
                                          NIL, Len(c.bigs) + 1))],
         ret |-> Len(H.blocks) + 1]

NewBlock(H, hr, tl, rl) ==
    LET c == CopyHeader(H.headers[hr], H.bigs, H.arrs)
        txs == ListValOf(H.lists, tl)
        rcs == ListValOf(H.lists, rl)
        h1 == IF Len(txs) = 0
              THEN [c.hdr EXCEPT !.TxHash = EmptyRootHash]
              ELSE [c.hdr EXCEPT !.TxHash = DeriveSha(txs)]
        h2 == IF Len(rcs) = 0
              THEN [h1 EXCEPT !.ReceiptHash = EmptyRootHash]
              ELSE [h1 EXCEPT !.ReceiptHash = DeriveSha(rcs), !.Bloom = CreateBloom(rcs)]
    IN  [H |-> [bigs |-> Append(c.bigs, BigZero), arrs |-> c.arrs,
                headers |-> Append(H.headers, h2),
                lists |-> IF Len(txs) = 0 THEN H.lists ELSE Append(H.lists, txs),
                blocks |-> Append(H.blocks,
                                  MkBlock(Len(H.headers) + 1,
                                          IF Len(txs) = 0 THEN NIL ELSE Len(H.lists) + 1,
                                          NIL, Len(c.bigs) + 1))],
         ret |-> Len(H.blocks) + 1]

(* NewBlockWithHeader (lines 269-271). *)
NewBlockWithHeader(H, hr) ==
    LET c == CopyHeader(H.headers[hr], H.bigs, H.arrs)
    IN  [H |-> [H EXCEPT !.bigs = c.bigs, !.arrs = c.arrs,
                         !.headers = Append(H.headers, c.hdr),
                         !.blocks = Append(H.blocks, MkBlock(Len(H.headers) + 1, NIL, NIL, NIL))],
         ret |-> Len(H.blocks) + 1]

(* WithSeal (lines 388-396): cpy := *header copies the struct and with it  *)
(* the references it holds; the body slices are b's.                       *)
WithSeal(H, b, hr) ==
    [H |-> [H EXCEPT !.headers = Append(H.headers, H.headers[hr]),
                     !.blocks = Append(H.blocks,
                                       MkBlock(Len(H.headers) + 1, H.blocks[b].transactions,
                                               H.blocks[b].receipts, NIL))],
     ret |-> Len(H.blocks) + 1]

(* WithBody (lines 399-410): the header is copied, both slices are made    *)
(* anew and filled from the arguments.                                     *)
WithBodyShareLists(H, b, tl, rl) ==
    LET c == CopyHeader(H.headers[H.blocks[b].header], H.bigs, H.arrs)
    IN  [H |-> [H EXCEPT !.bigs = c.bigs, !.arrs = c.arrs,
                         !.headers = Append(H.headers, c.hdr),
                         !.blocks = Append(H.blocks, MkBlock(Len(H.headers) + 1, tl, rl, NIL))],
         ret |-> Len(H.blocks) + 1]

WithBody(H, b, tl, rl) ==
    LET c == CopyHeader(H.headers[H.blocks[b].header], H.bigs, H.arrs)
    IN  [H |-> [bigs |-> c.bigs, arrs |-> c.arrs,
                headers |-> Append(H.headers, c.hdr),
                lists |-> H.lists \o <<ListValOf(H.lists, tl), ListValOf(H.lists, rl)>>,
                blocks |-> Append(H.blocks,
                                  MkBlock(Len(H.headers) + 1, Len(H.lists) + 1,
                                          Len(H.lists) + 2, NIL))],
         ret |-> Len(H.blocks) + 1]

(* The lists a caller may pass: nil or one it holds, of the right kind. *)
IsTxList(l) == l = NIL \/ (l \in extLists /\ \A i \in 1 .. Len(lists[l]) : lists[l][i] \in TxIds)

IsRcList(l) == l = NIL \/ (l \in extLists /\ \A i \in 1 .. Len(lists[l]) : lists[l][i] \in RcIds)

ListArgs == {NIL} \cup extLists

(* What a call leaves in rets and origin for a block it made. *)
Made(op, hr, tl, rl) ==
    /\ origin' = Append(origin, [op |-> op, header |-> IF hr = NIL THEN <<>> ELSE <<HeaderVal(hr)>>,
                                 txs |-> ListVal(tl), rcs |-> ListVal(rl), decodes |-> 0])
    /\ rets' = Append(rets, {})

CallNewBlock(hr, tl, rl) ==
    /\ Len(blocks) < MaxBlocks
    /\ hr \in ext /\ IsTxList(tl) /\ IsRcList(rl)
    /\ LET r == NewBlock(Heap, hr, tl, rl)
       IN  /\ SetHeap(r.H)
           /\ last' = [op |-> "NewBlock", blk |-> r.ret, hdr |-> hr, tl |-> tl, rl |-> rl]
    /\ Made("NewBlock", hr, tl, rl)
    /\ UNCHANGED <<ext, extLists, pc, coll, copies>>

CallNewBlockWithHeader(hr) ==
    /\ Len(blocks) < MaxBlocks
    /\ hr \in ext
    /\ LET r == NewBlockWithHeader(Heap, hr)
       IN  /\ SetHeap(r.H)
           /\ last' = [op |-> "NewBlockWithHeader", blk |-> r.ret, hdr |-> hr]
    /\ Made("NewBlockWithHeader", hr, NIL, NIL)
    /\ UNCHANGED <<ext, extLists, pc, coll, copies>>

CallWithSeal(b, hr) ==
    /\ Len(blocks) < MaxBlocks
    /\ b \in BlockRefs /\ hr \in ext
    /\ LET r == WithSeal(Heap, b, hr)
       IN  /\ SetHeap(r.H)
           /\ last' = [op |-> "WithSeal", blk |-> r.ret, from |-> b, hdr |-> hr]
    /\ Made("WithSeal", hr, blocks[b].transactions, blocks[b].receipts)
    /\ UNCHANGED <<ext, extLists, pc, coll, copies>>

(* CopyHeader dereferences b.header: on a block without one the call panics. *)
CallWithBody(b, tl, rl) ==
    /\ Len(blocks) < MaxBlocks
    /\ b \in BlockRefs /\ blocks[b].header # NIL
    /\ IsTxList(tl) /\ IsRcList(rl)
    /\ LET r == WithBody(Heap, b, tl, rl)
       IN  /\ SetHeap(r.H)
           /\ last' = [op |-> "WithBody", blk |-> r.ret, from |-> b, tl |-> tl, rl |-> rl]
    /\ Made("WithBody", blocks[b].header, tl, rl)
    /\ UNCHANGED <<ext, extLists, pc, coll, copies>>

(* Block.Header (line 369): a copy of the block's header for the caller. *)
CallHeader(b) ==
    /\ b \in BlockRefs /\ blocks[b].header # NIL
    /\ Cardinality(ext) < MaxHeaders
    /\ LET c == CopyHeader(headers[blocks[b].header], bigs, arrs)
       IN  /\ bigs' = c.bigs
           /\ arrs' = c.arrs
           /\ headers' = Append(headers, c.hdr)
    /\ ext' = ext \cup {Len(headers) + 1}
    /\ last' = [op |-> "Header", blk |-> b, hdr |-> Len(headers) + 1]
    /\ UNCHANGED <<lists, blocks, extLists, pc, origin, rets, coll, copies>>

----------------------------------------------------------------------------
(* The decoders.  The input stream is given by what it decodes to: a       *)
(* header, the two item sequences (and the total difficulty of the storage *)
(* form), or nothing when the bytes are malformed.  Decoding allocates the *)
(* header, its integers and the slices anew.                               *)

(* Block.DecodeRLP (lines 294-303). *)
DecodeRLP(H, b, in) ==
    LET c == BuildHeader(in.header, H.bigs, H.arrs)
        hv == <<HeaderValOf(c.hdr, c.bigs, c.arrs)>>
    IN  [bigs |-> c.bigs, arrs |-> c.arrs,
         headers |-> Append(H.headers, c.hdr),
         lists |-> H.lists \o <<in.txs, in.rcs>>,
         blocks |-> [H.blocks EXCEPT ![b].header = Len(H.headers) + 1,
                                     ![b].transactions = Len(H.lists) + 1,
                                     ![b].receipts = Len(H.lists) + 2,
                                     ![b].size = <<RlpListSize(RelayContent(hv, in.txs, in.rcs))>>]]

(* StorageBlock.DecodeRLP (lines 315-322). *)
StorageDecodeRLP(H, b, in) ==
    LET c == BuildHeader(in.header, H.bigs, H.arrs)
    IN  [bigs |-> Append(c.bigs, in.td), arrs |-> c.arrs,
         headers |-> Append(H.headers, c.hdr),
         lists |-> H.lists \o <<in.txs, in.rcs>>,
         blocks |-> [H.blocks EXCEPT ![b].header = Len(H.headers) + 1,
                                     ![b].transactions = Len(H.lists) + 1,
                                     ![b].receipts = Len(H.lists) + 2,
                                     ![b].td = Len(c.bigs) + 1]]

(* var b Block: the zero Block a decoder is usually given. *)
ZeroBlock ==
    /\ Len(blocks) < MaxBlocks
    /\ blocks' = Append(blocks, MkBlock(NIL, NIL, NIL, NIL))
    /\ last' = [op |-> "ZeroBlock", blk |-> Len(blocks) + 1]
    /\ Made("ZeroBlock", NIL, NIL, NIL)
    /\ UNCHANGED <<bigs, arrs, headers, lists, ext, extLists, pc, coll, copies>>

(* A decoder run: on malformed input it returns the error and leaves the   *)
(* block alone.  A block is decoded into at most MaxDecodes times.  The    *)
(* decoders write the block's fields with plain stores, so a caller runs   *)
(* them only while no thread is inside Hash() or Size() on the block.      *)
Decoded(b) == origin[b].decodes >= MaxDecodes

NoReader(b) == \A t \in Threads : pc[t].blk # b

CallDecodeRLP(b, in) ==
    /\ b \in BlockRefs
    /\ ~Decoded(b)
    /\ NoReader(b)
    /\ IF in.ok
       THEN /\ SetHeap(DecodeRLP(Heap, b, in))
            /\ origin' = [origin EXCEPT ![b] = [op |-> "DecodeRLP", header |-> <<>>,
                                                txs |-> in.txs, rcs |-> in.rcs,
                                                decodes |-> @.decodes + 1]]
       ELSE UNCHANGED <<heap, origin>>
    /\ last' = [op |-> "DecodeRLP", blk |-> b, err |-> ~in.ok]
    /\ UNCHANGED <<ext, extLists, pc, rets, coll, copies>>

CallStorageDecodeRLP(b, in) ==
    /\ b \in BlockRefs
    /\ ~Decoded(b)
    /\ NoReader(b)
    /\ IF in.ok
       THEN /\ SetHeap(StorageDecodeRLP(Heap, b, in))
            /\ origin' = [origin EXCEPT ![b] = [op |-> "StorageDecodeRLP", header |-> <<>>,
                                                txs |-> in.txs, rcs |-> in.rcs,
                                                decodes |-> @.decodes + 1]]
       ELSE UNCHANGED <<heap, origin>>
    /\ last' = [op |-> "StorageDecodeRLP", blk |-> b, err |-> ~in.ok]
    /\ UNCHANGED <<ext, extLists, pc, rets, coll, copies>>

----------------------------------------------------------------------------
(* Hash (lines 414-421) and Size (lines 376-384), one step per access to   *)
(* the block, so that threads interleave between the Load, the computation *)
(* and the Store.                                                          *)

HashLoad(t, b) ==
    /\ pc[t].at = "idle"
    /\ b \in BlockRefs
    /\ IF blocks[b].hash # <<>>
       THEN /\ last' = [op |-> "Hash", blk |-> b, ret |-> blocks[b].hash[1]]
            /\ rets' = [rets EXCEPT ![b] = @ \cup {blocks[b].hash[1]}]
            /\ UNCHANGED pc
       ELSE /\ pc' = [pc EXCEPT ![t] = [at |-> "HashCompute", blk |-> b]]
            /\ UNCHANGED <<last, rets>>
    /\ UNCHANGED <<heap, ext, extLists, origin, coll, copies>>

HashCompute(t) ==
    /\ pc[t].at = "HashCompute"
    /\ pc' = [pc EXCEPT ![t] = [at |-> "HashStore", blk |-> pc[t].blk,
                                v |-> BlockHeaderHash(pc[t].blk)]]
    /\ UNCHANGED <<heap, ext, extLists, last, origin, rets, coll, copies>>

HashStore(t) ==
    /\ pc[t].at = "HashStore"
    /\ blocks' = [blocks EXCEPT ![pc[t].blk].hash = <<pc[t].v>>]
    /\ last' = [op |-> "Hash", blk |-> pc[t].blk, ret |-> pc[t].v]
    /\ rets' = [rets EXCEPT ![pc[t].blk] = @ \cup {pc[t].v}]
    /\ pc' = [pc EXCEPT ![t] = Idle]
    /\ UNCHANGED <<bigs, arrs, headers, lists, ext, extLists, origin, coll, copies>>

SizeLoad(t, b) ==
    /\ pc[t].at = "idle"
    /\ b \in BlockRefs
    /\ IF blocks[b].size # <<>>
       THEN /\ last' = [op |-> "Size", blk |-> b, ret |-> blocks[b].size[1]]
            /\ UNCHANGED pc
       ELSE /\ pc' = [pc EXCEPT ![t] = [at |-> "SizeEncode", blk |-> b]]
            /\ UNCHANGED last
    /\ UNCHANGED <<heap, ext, extLists, origin, rets, coll, copies>>

SizeEncode(t) ==
    /\ pc[t].at = "SizeEncode"
    /\ pc' = [pc EXCEPT ![t] = [at |-> "SizeStore", blk |-> pc[t].blk,
                                v |-> BlockRelaySize(pc[t].blk)]]
    /\ UNCHANGED <<heap, ext, extLists, last, origin, rets, coll, copies>>

SizeStore(t) ==
    /\ pc[t].at = "SizeStore"
    /\ blocks' = [blocks EXCEPT ![pc[t].blk].size = <<pc[t].v>>]
    /\ last' = [op |-> "Size", blk |-> pc[t].blk, ret |-> pc[t].v]
    /\ pc' = [pc EXCEPT ![t] = Idle]
    /\ UNCHANGED <<bigs, arrs, headers, lists, ext, extLists, origin, rets, coll, copies>>

----------------------------------------------------------------------------
(* The lookups (lines 331-348): the first item of the block's slice whose  *)
(* hash is x, or nil.                                                      *)

RECURSIVE FirstTx(_, _)
FirstTx(s, x) ==
    IF s = <<>> THEN NIL
    ELSE IF TxHashOf(Head(s)) = x THEN Head(s) ELSE FirstTx(Tail(s), x)

RECURSIVE FirstRc(_, _)
FirstRc(s, x) ==
    IF s = <<>> THEN NIL
    ELSE IF RcTxHash(Head(s)) = x THEN Head(s) ELSE FirstRc(Tail(s), x)

Transaction(b, x) == FirstTx(ListVal(blocks[b].transactions), x)

ContrcatReceipt(b, x) == FirstRc(ListVal(blocks[b].receipts), x)

CallTransaction(b, x) ==
    /\ b \in BlockRefs
    /\ last' = [op |-> "Transaction", blk |-> b, x |-> x, ret |-> Transaction(b, x)]
    /\ UNCHANGED <<heap, ext, extLists, pc, origin, rets, coll, copies>>

CallContrcatReceipt(b, x) ==
    /\ b \in BlockRefs
    /\ last' = [op |-> "ContrcatReceipt", blk |-> b, x |-> x, ret |-> ContrcatReceipt(b, x)]
    /\ UNCHANGED <<heap, ext, extLists, pc, origin, rets, coll, copies>>

----------------------------------------------------------------------------
(* BlockBy.Sort (lines 423-444) on a caller's collection.                  *)

(* Number (line 444): b1.header.Number.Cmp(b2.header.Number) < 0. *)
NumberTruncated(b1, b2) ==
    Uint64(bigs[headers[blocks[b1].header].Number])
        < Uint64(bigs[headers[blocks[b2].header].Number])

Number(b1, b2) ==
    BigCmpLess(bigs[headers[blocks[b1].header].Number],
               bigs[headers[blocks[b2].header].Number])

(* scblockSorter (lines 433-442): Swap and Less over the slice. *)
Swap(s, i, j) == [s EXCEPT ![i] = s[j], ![j] = s[i]]

Less(s, i, j) == Number(s[i], s[j])

(* sort.Sort on fewer than 12 elements: the insertion sort               *)
(*   for i := a + 1; i < b; i++ {                                          *)
(*       for j := i; j > a && data.Less(j, j-1); j-- { data.Swap(j, j-1) } *)
(*   }                                                                     *)
RECURSIVE Sift(_, _)
Sift(s, j) == IF j > 1 /\ Less(s, j, j - 1) THEN Sift(Swap(s, j, j - 1), j - 1) ELSE s

RECURSIVE InsertionSort(_, _)
InsertionSort(s, i) == IF i > Len(s) THEN s ELSE InsertionSort(Sift(s, i), i + 1)

Sort(s) == InsertionSort(s, 2)

(* blocks = append(blocks, b) *)
Push(b) ==
    /\ b \in BlockRefs
    /\ Len(coll) < MaxColl
    /\ coll' = Append(coll, b)
    /\ last' = [op |-> "Push", blk |-> b]
    /\ UNCHANGED <<heap, ext, extLists, pc, origin, rets, copies>>

(* Number dereferences header.Number: the call panics on a block that has  *)
(* no header or a nil Number.                                              *)
CallSort ==
    /\ \A i \in 1 .. Len(coll) :
          blocks[coll[i]].header # NIL /\ headers[blocks[coll[i]].header].Number # NIL
    /\ coll' = Sort(coll)
    /\ last' = [op |-> "Sort", before |-> coll]
    /\ UNCHANGED <<heap, ext, extLists, pc, origin, rets, copies>>

----------------------------------------------------------------------------
(* Starting states: what callers hold before the calls under study.        *)

Front(s) == SubSeq(s, 1, Len(s) - 1)

(* The heap after a caller wrote down one header per template. *)
RECURSIVE HeapOfHeaders(_)
HeapOfHeaders(tpls) ==
    IF tpls = <<>> THEN EmptyHeap
    ELSE LET H == HeapOfHeaders(Front(tpls))
             c == BuildHeader(tpls[Len(tpls)], H.bigs, H.arrs)
         IN  [H EXCEPT !.bigs = c.bigs, !.arrs = c.arrs, !.headers = Append(H.headers, c.hdr)]

(* The heap after a caller wrote down one header per template and built a  *)
(* block from each with NewBlockWithHeader: header 2k-1 is the caller's,   *)
(* header 2k is block k's.                                                 *)
RECURSIVE HeapOfBlocks(_)
HeapOfBlocks(tpls) ==
    IF tpls = <<>> THEN EmptyHeap
    ELSE LET H == HeapOfBlocks(Front(tpls))
             c == BuildHeader(tpls[Len(tpls)], H.bigs, H.arrs)
             H1 == [H EXCEPT !.bigs = c.bigs, !.arrs = c.arrs,
                             !.headers = Append(H.headers, c.hdr)]
         IN  NewBlockWithHeader(H1, Len(H1.headers)).H

(* The state with heap H, the callers holding the headers e and the slices *)
(* el, every thread outside Hash() and Size(), no call made yet.           *)
StartWith(H, e, el, org) ==
    /\ bigs = H.bigs
    /\ arrs = H.arrs
    /\ headers = H.headers
    /\ lists = H.lists
    /\ blocks = H.blocks
    /\ ext = e
    /\ extLists = el
    /\ pc = [t \in Threads |-> Idle]
    /\ last = [op |-> "none"]
    /\ origin = org
    /\ rets = [b \in 1 .. Len(H.blocks) |-> {}]
    /\ coll = <<>>
    /\ copies = {}

(* What origin holds for a block built from header hr and the slices tl    *)
(* and rl of heap H.                                                       *)
OriginOf(op, H, hr, tl, rl) ==
    [op |-> op, header |-> <<HeaderValOf(H.headers[hr], H.bigs, H.arrs)>>,
     txs |-> ListValOf(H.lists, tl), rcs |-> ListValOf(H.lists, rl), decodes |-> 0]

Start(H, e, el) ==
    StartWith(H, e, el,
              [b \in 1 .. Len(H.blocks) |->
                  OriginOf("NewBlockWithHeader", H, 2 * b - 1, NIL, NIL)])

----------------------------------------------------------------------------
(* The values callers use.                                                 *)

Blooms == {{}, {7}}

Template(txh, rh, bloom, d, n, t, extra, cap) ==
    [TxHash |-> txh, ReceiptHash |-> rh, Bloom |-> bloom, GasUsed |-> 0,
     Difficulty |-> d, Number |-> n, Time |-> t, Extra |-> extra, Cap |-> cap]

(* Headers with nil and non-nil integers, and Extra nil, empty with room,  *)
(* full, and with room left.                                               *)
CopyTemplates ==
    {Template(CallerHash(0), CallerHash(0), {}, d, n, <<Big(0, 5)>>, e[1], e[2]) :
        d \in {<<>>, <<Big(0, 5)>>}, n \in {<<>>, <<Big(1, 0)>>},
        e \in {<<<<>>, 0>>, <<<<>>, 1>>, <<<<1>>, 1>>, <<<<1>>, 2>>}}

Mutation(r) ==
    \/ SetField(r, "Bloom", {7})
    \/ \E f \in {"Difficulty", "Number"} : MutBig(r, f, Big(1, 0))
    \/ MutExtra(r, 1, 2)
    \/ \E v \in Bytes : AppendExtra(r, v)

(* CopyHeader alone: callers write headers down, copy them and change      *)
(* originals and copies.                                                   *)
InitCopy == \E tpl \in CopyTemplates : Start(HeapOfHeaders(<<tpl>>), {1}, {})

NextCopy ==
    \/ \E r \in ext : CallCopyHeader(r)
    \/ \E r \in ext : Mutation(r)

SpecCopy == InitCopy /\ [][NextCopy]_vars

----------------------------------------------------------------------------
(* C3: CopyHeader(h) returns a header equal to h field by field, a nil     *)
(* Difficulty, Number or Time having become a fresh zero, and leaves h as  *)
(* it was; afterwards a change made through the copy (a field, an integer  *)
(* in place, a byte of Extra, an append to Extra) leaves h as it was, and  *)
(* a change made through h leaves the copy as it was.                      *)
C3_CopyHeaderEqualAndIndependent ==
    [][/\ last'.op = "CopyHeader" =>
            /\ HeaderValNext(last'.dst) = NilAsZero(HeaderVal(last'.src))
            /\ HeaderValNext(last'.src) = HeaderVal(last'.src)
       /\ last'.op = "Mutate" =>
            \A c \in copies :
                /\ last'.hdr = c[1] => HeaderValNext(c[2]) = HeaderVal(c[2])
                /\ last'.hdr = c[2] => HeaderValNext(c[1]) = HeaderVal(c[1])]_vars

----------------------------------------------------------------------------
(* Sorting: callers build blocks whose numbers lie on both sides of 2^64,  *)
(* collect them (a block may appear twice, two blocks may share a number)  *)
(* and sort the collection.                                                *)

SortTemplates ==
    {Template(CallerHash(0), CallerHash(0), {}, <<BigZero>>, <<n>>, <<BigZero>>, <<>>, 0) :
        n \in {Big(0, 1), Big(0, 2), Big(1, 0)}}

InitSort ==
    \E tpls \in [1 .. SortBlocks -> SortTemplates] :
        Start(HeapOfBlocks(tpls), {2 * b - 1 : b \in 1 .. SortBlocks}, {})

NextSort ==
    \/ \E b \in BlockRefs : Push(b)
    \/ CallSort

SpecSort == InitSort /\ [][NextSort]_vars

NumberOf(b) == bigs[headers[blocks[b].header].Number]

SortedByNumber(s) ==
    \A i \in 1 .. Len(s) - 1 : ~BigCmpLess(NumberOf(s[i + 1]), NumberOf(s[i]))

Count(s, b) == Cardinality({i \in 1 .. Len(s) : s[i] = b})

IsPermutation(s, t) == Len(s) = Len(t) /\ \A b \in BlockRefs : Count(s, b) = Count(t, b)

----------------------------------------------------------------------------
(* NewBlock and the lookups: callers write headers with any TxHash,        *)
(* ReceiptHash and Bloom, make transaction and receipt slices, build       *)
(* blocks from them, change their header's Bloom and their slices          *)
(* afterwards, and look items up.                                          *)

NewTemplates ==
    {Template(txh, rh, bl, <<BigZero>>, <<Big(0, 5)>>, <<BigZero>>, <<>>, 0) :
        txh \in {CallerHash(9)}, rh \in {CallerHash(0)}, bl \in Blooms}

TxLists == {<<>>, <<2, 1>>, <<3, 1>>}

RcLists == {<<>>, <<12, 11>>}

InitNew ==
    \E tpl \in NewTemplates, txs \in TxLists, rcs \in RcLists :
        Start([HeapOfHeaders(<<tpl>>) EXCEPT !.lists = <<txs, rcs>>], {1}, {1, 2})

NextNew ==
    \/ \E l \in extLists, item \in {2, 11} : MutList(l, 1, item)
    \/ \E r \in ext, v \in Blooms : SetField(r, "Bloom", v)
    \/ Len(blocks) < NewBlocks /\ \E r \in ext, tl, rl \in ListArgs : CallNewBlock(r, tl, rl)
    \/ \E b \in BlockRefs, x \in LookupHashes : CallTransaction(b, x)
    \/ \E b \in BlockRefs, x \in LookupHashes : CallContrcatReceipt(b, x)

SpecNew == InitNew /\ [][NextNew]_vars

RootOf(items) == IF items = <<>> THEN EmptyRootHash ELSE DeriveSha(items)

(* C4: the block NewBlock(h, txs, receipts) returns has TxHash the empty   *)
(* root for no txs and DeriveSha(txs) otherwise, ReceiptHash likewise from *)
(* receipts, whatever h held in the two fields; h reads as before.         *)
C4_NewBlockRoots ==
    last.op = "NewBlock" =>
        /\ HeaderVal(blocks[last.blk].header).TxHash = RootOf(origin[last.blk].txs)
        /\ HeaderVal(blocks[last.blk].header).ReceiptHash = RootOf(origin[last.blk].rcs)
        /\ <<HeaderVal(last.hdr)>> = origin[last.blk].header

(* A block of two transactions and no receipt, from a header that held     *)
(* other hashes in both fields.                                            *)
C4_Witness ==
    /\ last.op = "NewBlock"
    /\ origin[last.blk].txs = <<2, 1>>
    /\ origin[last.blk].rcs = <<>>
    /\ HeaderVal(last.hdr).TxHash = CallerHash(9)
    /\ HeaderVal(last.hdr).ReceiptHash = CallerHash(0)
    /\ HeaderVal(blocks[last.blk].header).TxHash = DeriveSha(<<2, 1>>)

NewBlockArgs(b) == [origin[b] EXCEPT !.header = <<[@[1] EXCEPT !.Bloom = {}]>>]

(* C5: two blocks built by NewBlock from headers that differ only in Bloom *)
(* and from the same txs and receipts have the same Bloom.                 *)
C5_BloomRecomputed ==
    \A b1, b2 \in BlockRefs :
        (/\ origin[b1].op = "NewBlock" /\ origin[b2].op = "NewBlock"
         /\ NewBlockArgs(b1) = NewBlockArgs(b2))
        => HeaderVal(blocks[b1].header).Bloom = HeaderVal(blocks[b2].header).Bloom

HasTx(items, x) == \E i \in 1 .. Len(items) : TxHashOf(items[i]) = x

HasRc(items, x) == \E i \in 1 .. Len(items) : RcTxHash(items[i]) = x

(* C7: on a block built by NewBlock(h, txs, receipts), Transaction(x) is a *)
(* transaction of txs with hash x when there is one and nil otherwise, and *)
(* ContrcatReceipt(x) a receipt of receipts with transaction hash x when   *)
(* there is one and nil otherwise.                                         *)
C7_Lookups ==
    /\ (last.op = "Transaction" /\ origin[last.blk].op = "NewBlock") =>
          IF HasTx(origin[last.blk].txs, last.x)
          THEN last.ret \in TxIds /\ TxHashOf(last.ret) = last.x
               /\ \E i \in 1 .. Len(origin[last.blk].txs) : origin[last.blk].txs[i] = last.ret
          ELSE last.ret = NIL
    /\ (last.op = "ContrcatReceipt" /\ origin[last.blk].op = "NewBlock") =>
          IF HasRc(origin[last.blk].rcs, last.x)
          THEN last.ret \in RcIds /\ RcTxHash(last.ret) = last.x
               /\ \E i \in 1 .. Len(origin[last.blk].rcs) : origin[last.blk].rcs[i] = last.ret
          ELSE last.ret = NIL

----------------------------------------------------------------------------
(* The caches: a caller holds one header; a block is made from it by a     *)
(* constructor or as the zero Block, decoded into from the relay and the   *)
(* storage form, and hashed and sized by the threads.                      *)

CacheTemplates ==
    {Template(CallerHash(0), CallerHash(0), {}, <<BigZero>>, <<n>>, <<BigZero>>, <<>>, 0) :
        n \in {Big(0, 5), Big(1, 0)}}

(* What a stream decodes to: malformed bytes, a block of one transaction   *)
(* with number 2^64 + 1, an empty block with number 5.                     *)
DecodeInputs ==
    {[ok |-> FALSE],
     [ok |-> TRUE, txs |-> <<>>, rcs |-> <<>>, td |-> BigZero,
      header |-> Template(EmptyRootHash, EmptyRootHash, {}, <<BigZero>>, <<Big(0, 5)>>,
                          <<BigZero>>, <<>>, 0)],
     [ok |-> TRUE, txs |-> <<1>>, rcs |-> <<>>, td |-> Big(0, 5),
      header |-> Template(DeriveSha(<<1>>), EmptyRootHash, {}, <<BigZero>>, <<Big(1, 1)>>,
                          <<BigZero>>, <<>>, 0)]}

InitCache == \E tpl \in CacheTemplates : Start(HeapOfHeaders(<<tpl>>), {1}, {})

NextCache ==
    \/ Len(blocks) < CacheBlocks /\ \E r \in ext : CallNewBlockWithHeader(r)
    \/ Len(blocks) < CacheBlocks /\ \E r \in ext : CallNewBlock(r, NIL, NIL)
    \/ Len(blocks) < CacheBlocks /\ ZeroBlock
    \/ \E b \in BlockRefs, in \in DecodeInputs : CallDecodeRLP(b, in)
    \/ \E b \in BlockRefs, in \in DecodeInputs : CallStorageDecodeRLP(b, in)
    \/ \E t \in Threads, b \in BlockRefs : HashLoad(t, b)
    \/ \E t \in Threads : HashCompute(t)
    \/ \E t \in Threads : HashStore(t)
    \/ \E t \in Threads, b \in BlockRefs : SizeLoad(t, b)
    \/ \E t \in Threads : SizeEncode(t)
    \/ \E t \in Threads : SizeStore(t)

SpecCache == InitCache /\ [][NextCache]_vars

(* C1: every Hash() on a block returns what all earlier Hash() calls on it *)
(* returned, and that is Header.Hash() of the header the block holds.      *)
C1_HashStable ==
    /\ \A b \in BlockRefs : Cardinality(rets[b]) <= 1
    /\ last.op = "Hash" => last.ret = BlockHeaderHash(last.blk)

(* C6: Size() returns the byte length of the relay encoding of the block's *)
(* current contents, whichever calls ran on the block before.              *)
C6_SizeIsRelayLength ==
    last.op = "Size" => last.ret = BlockRelaySize(last.blk)

(* C8: once a cache of a block holds a value, no step changes the value or *)
(* empties the cache.                                                      *)
C8_CachesSetOnce ==
    [][\A b \in BlockRefs :
          /\ blocks[b].hash # <<>> => blocks'[b].hash = blocks[b].hash
          /\ blocks[b].size # <<>> => blocks'[b].size = blocks[b].size]_vars

----------------------------------------------------------------------------
(* Aliasing: a caller holds a header (its Number nil or not) and two       *)
(* slices and has built a block from them with NewBlock or with            *)
(* NewBlockWithHeader; it derives blocks, asks blocks for their header,    *)
(* hashes blocks, and changes the headers and slices it holds.             *)

AliasTemplates ==
    {Template(CallerHash(0), CallerHash(0), {}, <<Big(0, 5)>>, n, <<BigZero>>, <<1>>, 1) :
        n \in {<<>>, <<Big(0, 5)>>}}

InitAlias ==
    \E tpl \in AliasTemplates :
        LET H == [HeapOfHeaders(<<tpl>>) EXCEPT !.lists = <<<<1>>, <<11>>>>]
        IN  \/ StartWith(NewBlock(H, 1, 1, 2).H, {1}, {1, 2},
                         <<OriginOf("NewBlock", H, 1, 1, 2)>>)
            \/ StartWith(NewBlockWithHeader(H, 1).H, {1}, {1, 2},
                         <<OriginOf("NewBlockWithHeader", H, 1, NIL, NIL)>>)

AliasMutation(r) ==
    \/ SetField(r, "Bloom", {7})
    \/ \E f \in {"Number", "Time"} : MutBig(r, f, Big(1, 0))
    \/ MutExtra(r, 1, 2)

NextAlias ==
    \/ \E r \in ext : AliasMutation(r)
    \/ Len(blocks) < AliasBlocks /\ \E b \in BlockRefs, r \in ext : CallWithSeal(b, r)
    \/ Len(blocks) < AliasBlocks /\ \E b \in BlockRefs : CallWithBody(b, 1, 2)
    \/ Cardinality(ext) < AliasHeaders /\ \E b \in BlockRefs : CallHeader(b)

SpecAlias == InitAlias /\ [][NextAlias]_vars

(* C2: a change a caller makes through a header it holds (one it passed to *)
(* a constructor or to WithSeal, or one Block.Header() returned) changes   *)
(* nothing any block reports.                                              *)
C2_HeaderNotShared ==
    [][last'.op = "Mutate" => \A b \in BlockRefs : BlockReportNext(b) = BlockReport(b)]_vars

----------------------------------------------------------------------------
(* Deriving: from the same start the caller derives blocks with WithSeal   *)
(* and WithBody, hashes blocks, and changes the slices it holds.           *)

NextDerive ==
    \/ \E b \in BlockRefs, r \in ext : CallWithSeal(b, r)
    \/ \E b \in BlockRefs, a \in {<<NIL, NIL>>, <<1, 2>>} : CallWithBody(b, a[1], a[2])
    \/ \E l \in extLists, item \in {2, 12} : MutList(l, 1, item)
    \/ \E b \in BlockRefs : HashLoad(1, b)
    \/ HashCompute(1)
    \/ HashStore(1)

SpecDerive == InitAlias /\ [][NextDerive]_vars

DerivedFreshAndFrameKept(n, b) ==
    /\ blocks'[n].hash = <<>> /\ blocks'[n].size = <<>>
    /\ blocks'[b] = blocks[b]
    /\ BlockReportNext(b) = BlockReport(b)

BodyCopied(n, tl, rl) ==
    /\ BlockReportNext(n).transactions = ListVal(tl)
    /\ BlockReportNext(n).receipts = ListVal(rl)
    /\ blocks'[n].transactions \notin ListArgs
    /\ blocks'[n].receipts \notin ListArgs

SealedAsGiven(n, b, hr) ==
    /\ BlockReportNext(n).header = <<HeaderVal(hr)>>
    /\ blocks'[n].transactions = blocks[b].transactions
    /\ blocks'[n].receipts = blocks[b].receipts

====
